---- MODULE Spec2Model ----
(***************************************************************************)
(* Model of the two Streamlit scripts of ShocAgentPDF:                     *)
(*   ShocAgentLarry.py  - file_type_detection, validate_files, create_pdf  *)
(*   Agent_PDF_Smith.py - calculate_dpi, is_print_ready and the app body   *)
(* A session runs one of the two scripts; "idle" is the state between two  *)
(* script runs.                                                            *)
(***************************************************************************)
EXTENDS Integers, Sequences, FiniteSets, TLC

VARIABLES pc, uploaded_files, file_details, sounds, pdf, disk, smith

vars == <<pc, uploaded_files, file_details, sounds, pdf, disk, smith>>

\* Largest number of files in one upload.
MaxFiles == 3

(***************************************************************************)
(* Python values.  A dict is a function from its keys; a value is a tuple  *)
(* whose first element names its Python type.                              *)
(***************************************************************************)
None == <<"None">>
Str(s) == <<"str", s>>
Tuple2(a, b) == <<"tuple", a, b>>
\* A pair of floats with one decimal, each held as a number of tenths.
Dpi2(a, b) == <<"dpi", a, b>>
BytesIO(img) == <<"BytesIO", img>>

\* d[key] = value on a dict: the key is added when missing.
SetItem(d, key, value) == [k \in DOMAIN d \cup {key} |-> IF k = key THEN value ELSE d[k]]

\* d.get(key, default)
Get(d, key, default) == IF key \in DOMAIN d THEN d[key] ELSE default

\* A number of tenths printed with one decimal, as by the format {:.1f}.
Fixed1(tenths) == ToString(tenths \div 10) \o "." \o ToString(tenths % 10)

\* What an f-string prints for a value.
Format(v) ==
    CASE v[1] = "None" -> "None"
      [] v[1] = "str" -> v[2]
      [] v[1] = "tuple" -> "(" \o ToString(v[2]) \o ", " \o ToString(v[3]) \o ")"
      [] v[1] = "dpi" -> "(" \o Fixed1(v[2]) \o ", " \o Fixed1(v[3]) \o ")"
      [] OTHER -> "<_io.BytesIO object>"

\* bool(v) as used by `if v:`
Truthy(v) ==
    CASE v[1] = "None" -> FALSE
      [] v[1] = "str" -> v[2] # ""
      [] OTHER -> TRUE

(***************************************************************************)
(* File names are sequences of characters, so that lower() and endswith()  *)
(* are computed on the characters.                                         *)
(***************************************************************************)
UpperCase == <<"A","B","C","D","E","F","G","H","I","J","K","L","M",
               "N","O","P","Q","R","S","T","U","V","W","X","Y","Z">>
LowerCase == <<"a","b","c","d","e","f","g","h","i","j","k","l","m",
               "n","o","p","q","r","s","t","u","v","w","x","y","z">>

LowerChar(c) ==
    IF \E i \in 1..26 : UpperCase[i] = c
    THEN LowerCase[CHOOSE i \in 1..26 : UpperCase[i] = c]
    ELSE c

\* str.lower()
Lower(name) == [i \in 1..Len(name) |-> LowerChar(name[i])]

\* str.endswith(suffix)
EndsWith(name, suffix) ==
    /\ Len(name) >= Len(suffix)
    /\ SubSeq(name, Len(name) - Len(suffix) + 1, Len(name)) = suffix

\* str.endswith(tuple of suffixes)
EndsWithAny(name, suffixes) == \E suffix \in suffixes : EndsWith(name, suffix)

RECURSIVE Text(_)
\* The characters of a name as one string.
Text(name) == IF name = <<>> THEN "" ELSE Head(name) \o Text(Tail(name))

ImageSuffixes == { <<"p","n","g">>, <<"j","p","g">>, <<"j","p","e","g">>,
                   <<"t","i","f","f">>, <<"b","m","p">>, <<"g","i","f">> }
PdfSuffix == <<"p","d","f">>

(***************************************************************************)
(* Uploaded files.  A file has a name and bytes; the bytes are described   *)
(* by what the decoder makes of them: decode is "ok", "unidentified"       *)
(* (Image.open raises) or "truncated" (Image.open reads the header, the    *)
(* first access to the pixels raises).  dpi is None or a pair of numbers   *)
(* of hundredths.                                                          *)
(***************************************************************************)
Bytes(decode, mode, size, dpi) == [decode |-> decode, mode |-> mode, size |-> size, dpi |-> dpi]

UploadedFile(name, data) == [name |-> name, data |-> data]

PlainRGB == Bytes("ok", "RGB", <<800, 600>>, None)

ImageData ==
    { PlainRGB,
      Bytes("ok", "RGBA", <<400, 1000>>, None),
      Bytes("ok", "L", <<800, 600>>, <<29996, 7200>>),
      Bytes("ok", "CMYK", <<3300, 5100>>, None),
      Bytes("ok", "CMYK", <<3299, 5100>>, <<30000, 30000>>),
      Bytes("unidentified", "RGB", <<800, 600>>, None),
      Bytes("truncated", "CMYK", <<3300, 5099>>, None) }

FileNames ==
    { <<"a",".","p","n","g">>, <<"B",".","J","P","G">>, <<"c",".","j","p","e","g">>,
      <<"d",".","T","i","f","f">>, <<"e",".","b","m","p">>, <<"f",".","g","i","f">>,
      <<"g",".","P","d","f">>, <<"p","n","g",".","t","x","t">>, <<"m","y","p","n","g">> }

\* Every name with plain bytes, and one name with every kind of bytes.
Files ==
    { UploadedFile(name, PlainRGB) : name \in FileNames }
        \cup { UploadedFile(<<"a",".","p","n","g">>, data) : data \in ImageData }

Batches == UNION { [1..n -> Files] : n \in 0..MaxFiles }

(***************************************************************************)
(* The decoder (PIL), as far as the scripts use it.                        *)
(***************************************************************************)
Abs(n) == IF n < 0 THEN -n ELSE n

\* round(x, 1) of a number of hundredths, as a number of tenths (ties to even).
Round1(hundredths) ==
    LET q == hundredths \div 10
        r == hundredths % 10
    IN  IF r > 5 \/ (r = 5 /\ q % 2 = 1) THEN q + 1 ELSE q

\* Image.thumbnail((bound, bound)): the size after shrinking, aspect ratio kept.
Thumbnail(size, bound) ==
    LET w == size[1]
        h == size[2]
        Max1(n) == IF n < 1 THEN 1 ELSE n
    IN  IF bound >= w /\ bound >= h THEN size
        ELSE IF w <= h
        THEN LET lo == (bound * w) \div h
                 hi == IF lo * h = bound * w THEN lo ELSE lo + 1
                 x == IF Abs(bound * w - lo * h) <= Abs(bound * w - hi * h) THEN lo ELSE hi
             IN  <<Max1(x), bound>>
        ELSE LET lo == (bound * h) \div w
                 hi == IF lo * w = bound * h THEN lo ELSE lo + 1
                 y == IF lo = 0 THEN lo
                      ELSE IF Abs(w * lo - bound * h) * hi <= Abs(w * hi - bound * h) * lo
                      THEN lo ELSE hi
             IN  <<bound, Max1(y)>>

ErrorText(data) ==
    IF data.decode = "unidentified" THEN "cannot identify image file"
    ELSE "image file is truncated"

(***************************************************************************)
(* Agent 1: file_type_detection                                            *)
(***************************************************************************)
\* The record of one file, the body of the loop without the insertion.
DetectOne(file, idx) ==
    LET info == [name |-> file.name, index |-> idx, type |-> None, dimensions |-> None,
                 color_mode |-> None, resolution |-> None, image_object |-> None,
                 print_quality |-> None]
        data == file.data
        opened == [info EXCEPT !.type = Str("Image"),
                               !.dimensions = Tuple2(data.size[1], data.size[2]),
                               !.color_mode = Str(data.mode),
                               !.resolution = IF data.dpi # None
                                              THEN Dpi2(Round1(data.dpi[1]), Round1(data.dpi[2]))
                                              ELSE Str("Not available")]
        thumb == [format |-> "PNG",
                  mode |-> IF data.mode = "CMYK" THEN "RGB" ELSE data.mode,
                  size |-> Thumbnail(data.size, 500)]
        failed(d) == SetItem(d, "error", Str("Error processing file: " \o ErrorText(data)))
    IN  IF EndsWithAny(Lower(file.name), ImageSuffixes)
        THEN CASE data.decode = "unidentified" -> failed(info)
               [] data.decode = "truncated" -> failed(opened)
               [] OTHER -> [opened EXCEPT !.image_object = BytesIO(thumb)]
        ELSE IF EndsWith(Lower(file.name), PdfSuffix)
        THEN [info EXCEPT !.type = Str("PDF")]
        ELSE info

RECURSIVE DetectLoop_AbortsOnError(_, _)
\* The loop of file_type_detection ending at the first file that fails to decode.
DetectLoop_AbortsOnError(files, details) ==
    IF files = <<>> THEN details
    ELSE LET info == DetectOne(Head(files), Len(details) + 1)
         IN  IF "error" \in DOMAIN info THEN details
             ELSE DetectLoop_AbortsOnError(Tail(files), <<info>> \o details)

RECURSIVE DetectLoop(_, _)
DetectLoop(files, details) ==
    IF files = <<>> THEN details
    ELSE DetectLoop(Tail(files), <<DetectOne(Head(files), Len(details) + 1)>> \o details)

file_type_detection(files) == DetectLoop(files, <<>>)

(***************************************************************************)
(* Floats.  A quotient of integers is held exactly, as <<numerator,        *)
(* denominator>> with a positive denominator in lowest terms.              *)
(***************************************************************************)
RECURSIVE Gcd(_, _)
Gcd(a, b) == IF b = 0 THEN a ELSE Gcd(b, a % b)

Ratio(n, d) == LET g == Gcd(n, d) IN <<n \div g, d \div g>>

\* a / b
Div(a, b) == Ratio(a[1] * b[2], a[2] * b[1])

Whole(n) == <<n, 1>>

\* 25.4
MmPerInch == Ratio(254, 10)

Greater(a, b) == a[1] * b[2] > b[1] * a[2]

GreaterEq(a, b) == a[1] * b[2] >= b[1] * a[2]

\* min(a, b)
Min(a, b) == IF Greater(a, b) THEN b ELSE a

\* The nearest number of tenths to the quotient a (ties to even).
Tenths(a) ==
    LET q == (10 * a[1]) \div a[2]
        r == (10 * a[1]) % a[2]
    IN  IF 2 * r > a[2] \/ (2 * r = a[2] /\ q % 2 = 1) THEN q + 1 ELSE q

(***************************************************************************)
(* Agent 2: validate_files                                                 *)
(***************************************************************************)
\* The alert: one emission of the audio markup, logged with the position
\* of the record under validation.
play_warning_sound(log, idx) == Append(log, idx)

\* PrintQuality with > for >=.
PrintQuality_Strict(info) ==
    LET dpi_x == Ratio(info.dimensions[2], 11)
        dpi_y == Ratio(info.dimensions[3], 17)
    IN  IF Greater(dpi_x, Whole(300)) /\ Greater(dpi_y, Whole(300))
        THEN Str("Good for print (meets 300 DPI standard).")
        ELSE Str("Low quality for print (DPI: " \o Fixed1(Tenths(dpi_x)) \o " x "
                 \o Fixed1(Tenths(dpi_y)) \o ").")

\* Lines 89-99: the print quality of a CMYK image on an assumed 11 x 17 inch sheet.
PrintQuality(info) ==
    LET width == info.dimensions[2]
        height == info.dimensions[3]
        physical_width == 11
        physical_height == 17
        dpi_x == Ratio(width, physical_width)
        dpi_y == Ratio(height, physical_height)
    IN  IF GreaterEq(dpi_x, Whole(300)) /\ GreaterEq(dpi_y, Whole(300))
        THEN Str("Good for print (meets 300 DPI standard).")
        ELSE Str("Low quality for print (DPI: " \o Fixed1(Tenths(dpi_x)) \o " x "
                 \o Fixed1(Tenths(dpi_y)) \o ").")

\* Lines 101-108: the warning or success of the color mode.
ColorModeRule(info) ==
    IF info.color_mode = Str("RGB")
    THEN SetItem(info, "warning",
                 Str("Image is in RGB color mode. Consider converting to CMYK for print."))
    ELSE IF info.color_mode = Str("RGBA")
    THEN SetItem(info, "warning", Str("Image is in RGBA color mode."))
    ELSE IF info.color_mode = Str("CMYK")
    THEN SetItem(info, "success", Str("Image is in CMYK color mode, suitable for print."))
    ELSE info

\* ValidateOne without the renumbering of line 86.
ValidateOne_KeepsIndex(info, idx) ==
    LET assessed == IF info.color_mode = Str("CMYK")
                    THEN [info EXCEPT !.print_quality = PrintQuality(info)]
                    ELSE info
    IN  IF info.type = Str("Image") THEN ColorModeRule(assessed) ELSE info

\* One iteration of the loop on the record at position idx.
ValidateOne(info, idx) ==
    LET numbered == [info EXCEPT !.index = idx]
        assessed == IF numbered.color_mode = Str("CMYK")
                    THEN [numbered EXCEPT !.print_quality = PrintQuality(numbered)]
                    ELSE numbered
    IN  IF numbered.type = Str("Image") THEN ColorModeRule(assessed) ELSE numbered

\* Alerts with the alert raised for RGB images too.
Alerts_AnyRgb(info) ==
    info.type = Str("Image") /\ info.color_mode \in {Str("RGB"), Str("RGBA")}

\* Whether the iteration on this record calls play_warning_sound.
Alerts(info) == info.type = Str("Image") /\ info.color_mode = Str("RGBA")

RECURSIVE ValidateLoop(_, _, _)
ValidateLoop(details, idx, log) ==
    IF idx > Len(details) THEN [details |-> details, sounds |-> log]
    ELSE ValidateLoop([details EXCEPT ![idx] = ValidateOne(details[idx], idx)], idx + 1,
                      IF Alerts(details[idx]) THEN play_warning_sound(log, idx) ELSE log)

validate_files(details) == ValidateLoop(details, 1, <<>>)

(***************************************************************************)
(* Agent 3: create_pdf                                                     *)
(* A fault names the statement of the image loop that raises: the record   *)
(* it happens on and the step ("save": img.save raises and leaves nothing  *)
(* behind, "save_partial": img.save raises after it created the file,      *)
(* "image": pdf.image raises, "cell": one of the metadata cells raises).   *)
(* at = 0 with step "output" is pdf.output raising, "none" is no fault.    *)
(***************************************************************************)
NoFault == [at |-> 0, step |-> "none"]

FaultSteps == {"save", "save_partial", "image", "cell"}

\* Line 127: the records that get an image page.
HasImagePage(detail) == detail.type = Str("Image") /\ Truthy(detail.image_object)

Faults(details) ==
    {NoFault, [at |-> 0, step |-> "output"]}
        \cup { [at |-> k, step |-> step] :
                 k \in {i \in 1..Len(details) : HasImagePage(details[i])}, step \in FaultSteps }

\* Lines 123-124: one line of the appendix.
AppendixLine(detail) ==
    ToString(detail.index) \o ": " \o Text(detail.name) \o " - "
        \o Format(Get(detail, "type", Str("Unknown")))

\* Line 129
TempPath(detail) == "temp_" \o Text(detail.name)

Line(text, color) == [text |-> text, color |-> color]

\* Lines 132-156: the page of one image, its metadata block below the image.
ImagePage(detail) ==
    LET img == detail.image_object[2]
        img_bottom_y == Ratio(10 * img.size[1] + 180 * img.size[2], img.size[1])
        black == <<0, 0, 0>>
    IN  [image |-> TempPath(detail),
         y |-> Ratio(img_bottom_y[1] + 10 * img_bottom_y[2], img_bottom_y[2]),
         lines |->
            << Line("File Name: " \o Text(detail.name), black),
               Line("Dimensions: " \o Format(detail.dimensions), black),
               Line("Color Mode: " \o Format(detail.color_mode), black),
               Line("Resolution: " \o Format(detail.resolution), black) >>
            \o (IF "warning" \in DOMAIN detail
                THEN <<Line("Warning: " \o Format(detail.warning), <<255, 0, 0>>)>> ELSE <<>>)
            \o (IF "success" \in DOMAIN detail
                THEN <<Line("Success: " \o Format(detail.success), <<0, 128, 0>>)>> ELSE <<>>)
            \o (IF "print_quality" \in DOMAIN detail
                THEN <<Line("Print Quality: " \o Format(detail.print_quality), black)>>
                ELSE <<>>)]

RECURSIVE ImageLoop(_, _, _, _, _)
\* Lines 126-158, from record i on: the pages so far and the files on disk.
ImageLoop(details, i, pages, files, fault) ==
    IF i > Len(details) THEN [raised |-> FALSE, pages |-> pages, disk |-> files]
    ELSE IF ~HasImagePage(details[i]) THEN ImageLoop(details, i + 1, pages, files, fault)
    ELSE LET img_path == TempPath(details[i])
             saved == files \cup {img_path}
         IN  IF fault.at = i /\ fault.step = "save"
             THEN [raised |-> TRUE, pages |-> pages, disk |-> files]
             ELSE IF fault.at = i
             THEN [raised |-> TRUE, pages |-> pages, disk |-> saved]
             ELSE ImageLoop(details, i + 1, Append(pages, ImagePage(details[i])),
                            saved \ {img_path}, fault)

\* create_pdf with an appendix that leaves out the records with an error.
create_pdf_AppendixSkipsErrors(details, output_filename, files, fault) ==
    LET listed == SelectSeq(details, LAMBDA d : "error" \notin DOMAIN d)
        appendix == [i \in 1..Len(listed) |-> AppendixLine(listed[i])]
        loop == ImageLoop(details, 1, <<>>, files, fault)
        written == ~loop.raised /\ fault.step # "output"
    IN  [raised |-> ~written,
         pdf |-> [appendix |-> appendix, pages |-> loop.pages],
         disk |-> IF written THEN loop.disk \cup {output_filename} ELSE loop.disk]

\* The whole call: what it leaves in the document and on disk, and whether it raised.
create_pdf(details, output_filename, files, fault) ==
    LET appendix == [i \in 1..Len(details) |-> AppendixLine(details[i])]
        loop == ImageLoop(details, 1, <<>>, files, fault)
        written == ~loop.raised /\ fault.step # "output"
    IN  [raised |-> ~written,
         pdf |-> [appendix |-> appendix, pages |-> loop.pages],
         disk |-> IF written THEN loop.disk \cup {output_filename} ELSE loop.disk]

(***************************************************************************)
(* Agent_PDF_Smith.py                                                      *)
(***************************************************************************)
calculate_dpi(pixel_width, pixel_height, width_mm, height_mm) ==
    LET dpi_x == Div(Whole(pixel_width), Div(Whole(width_mm), MmPerInch))
        dpi_y == Div(Whole(pixel_height), Div(Whole(height_mm), MmPerInch))
    IN  <<dpi_x, dpi_y>>

\* is_print_ready with >= for >.
is_print_ready_AtLeast(dpi_x, dpi_y, min_dpi) ==
    GreaterEq(dpi_x, Whole(min_dpi)) /\ GreaterEq(dpi_y, Whole(min_dpi))

is_print_ready(dpi_x, dpi_y, min_dpi) ==
    Greater(dpi_x, Whole(min_dpi)) /\ Greater(dpi_y, Whole(min_dpi))

\* The artwork buttons, as <<width mm, height mm>>.
Presets == { <<1980, 300>>, <<980, 2414>>, <<1960, 2480>> }

\* Values typed into the two number inputs (min_value = 1).
CustomMm == {1, 127, 254, 210}

PixelWidths == {12, 1500, 1501, 4000, 24000}
PixelHeights == {12, 1500, 3000, 30000}

\* Lines 76-91 for an opened image and a selected size.
SmithResult(pixel_width, pixel_height, selected_width_mm, selected_height_mm) ==
    LET dpi == calculate_dpi(pixel_width, pixel_height, selected_width_mm, selected_height_mm)
    IN  [pixel_width |-> pixel_width, pixel_height |-> pixel_height,
         selected_width_mm |-> selected_width_mm, selected_height_mm |-> selected_height_mm,
         dpi_x_manual |-> dpi[1], dpi_y_manual |-> dpi[2],
         lowest_dpi |-> Min(dpi[1], dpi[2]),
         print_ready |-> is_print_ready(dpi[1], dpi[2], 300)]

(***************************************************************************)
(* The state machine                                                       *)
(***************************************************************************)
NoPdf == [appendix |-> <<>>, pages |-> <<>>]

Init ==
    /\ pc = "idle"
    /\ uploaded_files = <<>>
    /\ file_details = <<>>
    /\ sounds = <<>>
    /\ pdf = NoPdf
    /\ disk = {}
    /\ smith = <<>>

\* The user hands a batch of files to ShocAgentLarry.
Upload ==
    /\ pc = "idle"
    /\ \E batch \in Batches : uploaded_files' = batch
    /\ pc' = "uploaded"
    /\ UNCHANGED <<file_details, sounds, pdf, disk, smith>>

Detect ==
    /\ pc = "uploaded"
    /\ file_details' = file_type_detection(uploaded_files)
    /\ pc' = "detected"
    /\ UNCHANGED <<uploaded_files, sounds, pdf, disk, smith>>

Validate ==
    /\ pc = "detected"
    /\ LET result == validate_files(file_details)
       IN  /\ file_details' = result.details
           /\ sounds' = result.sounds
    /\ pc' = "validated"
    /\ UNCHANGED <<uploaded_files, pdf, disk, smith>>

CreatePdf ==
    /\ pc = "validated"
    /\ \E fault \in Faults(file_details) :
         LET result == create_pdf(file_details, "output.pdf", disk, fault)
         IN  /\ pdf' = result.pdf
             /\ disk' = result.disk
             /\ pc' = IF result.raised THEN "failed" ELSE "done"
    /\ UNCHANGED <<uploaded_files, file_details, sounds, smith>>

\* One run of Agent_PDF_Smith on an image that opens.
SmithRun ==
    /\ pc = "idle"
    /\ \E pixel_width \in PixelWidths, pixel_height \in PixelHeights,
          size \in Presets \cup (CustomMm \X CustomMm) :
         smith' = IF size[1] # 0 /\ size[2] # 0
                  THEN SmithResult(pixel_width, pixel_height, size[1], size[2])
                  ELSE <<>>
    /\ pc' = "smith_done"
    /\ UNCHANGED <<uploaded_files, file_details, sounds, pdf, disk>>

\* One run of Agent_PDF_Smith on an image that does not open (lines 93-94).
SmithError ==
    /\ pc = "idle"
    /\ pc' = "smith_error"
    /\ UNCHANGED <<uploaded_files, file_details, sounds, pdf, disk, smith>>

Next == Upload \/ Detect \/ Validate \/ CreatePdf \/ SmithRun \/ SmithError

Spec == Init /\ [][Next]_vars

(***************************************************************************)
(* Properties                                                              *)
(***************************************************************************)
Validated == pc \in {"validated", "done", "failed"}

Detected == pc \in {"detected", "validated", "done", "failed"}

NumFiles == Len(uploaded_files)

\* The uploaded file a record at position p comes from, under front insertion.
SourceOf(p) == uploaded_files[NumFiles + 1 - p]

IsImageName(name) == EndsWithAny(Lower(name), ImageSuffixes)

IsPdfName(name) == EndsWith(Lower(name), PdfSuffix)

Has(detail, key) == key \in DOMAIN detail

\* How many times the alert was raised for the record at position p.
AlertCount(p) == Cardinality({k \in 1..Len(sounds) : sounds[k] = p})

C2_PrintReadyStrictlyAbove300 ==
    pc = "smith_done" =>
        /\ smith.print_ready <=>
             /\ smith.pixel_width * 127 > 1500 * smith.selected_width_mm
             /\ smith.pixel_height * 127 > 1500 * smith.selected_height_mm
        /\ (smith.dpi_x_manual = <<300, 1>> \/ smith.dpi_y_manual = <<300, 1>>)
             => ~smith.print_ready

C2_Witness ==
    /\ pc = "smith_done"
    /\ smith.dpi_x_manual = <<300, 1>>
    /\ smith.dpi_y_manual = <<600, 1>>
    /\ ~smith.print_ready

\* The records of the batch that carry an image payload and no error.
PageRecords ==
    SelectSeq(file_details,
              LAMBDA d : d.type = Str("Image") /\ d.image_object # None /\ ~Has(d, "error"))

\* C3: a report that create_pdf wrote has one appendix line per record and one
\* image page per record of type Image with an image payload, in order; a
\* record that is PDF, Unknown or has an error has no payload and so no page.
C3_AppendixAndPageCounts ==
    pc = "done" =>
        /\ Len(pdf.appendix) = Len(file_details)
        /\ Len(pdf.pages) = Len(PageRecords)
        /\ \A k \in 1..Len(pdf.pages) :
             pdf.pages[k].image = "temp_" \o Text(PageRecords[k].name)
        /\ \A p \in 1..Len(file_details) :
             (file_details[p].type # Str("Image") \/ Has(file_details[p], "error"))
                => file_details[p].image_object = None

C3_Witness ==
    /\ pc = "done"
    /\ Len(file_details) = 3
    /\ Len(pdf.appendix) = 3
    /\ Len(pdf.pages) = 1
    /\ \E p \in 1..3 : file_details[p].type = Str("PDF")
    /\ \E p \in 1..3 : Has(file_details[p], "error") /\ file_details[p].type = Str("Image")

\* C4: file_type_detection returns one record per uploaded file; an image file
\* that fails to decode yields a record with error set, and every decodable
\* image of the batch has type, dimensions, color_mode, resolution and
\* image_object populated, wherever the failing file is in the upload order.
C4_OneFailureDoesNotAbortBatch ==
    Detected =>
        /\ Len(file_details) = NumFiles
        /\ \A p \in 1..Len(file_details) :
             LET file == SourceOf(p)
                 info == file_details[p]
             IN  /\ info.name = file.name
                 /\ (IsImageName(file.name) /\ file.data.decode # "ok") => Has(info, "error")
                 /\ (IsImageName(file.name) /\ file.data.decode = "ok") =>
                      /\ ~Has(info, "error")
                      /\ info.type = Str("Image")
                      /\ info.dimensions = Tuple2(file.data.size[1], file.data.size[2])
                      /\ info.color_mode = Str(file.data.mode)
                      /\ info.resolution # None
                      /\ info.image_object # None

C4_Witness ==
    /\ pc = "detected"
    /\ NumFiles = 3
    /\ IsImageName(uploaded_files[2].name) /\ uploaded_files[2].data.decode = "truncated"
    /\ \A i \in {1, 3} :
         IsImageName(uploaded_files[i].name) /\ uploaded_files[i].data.decode = "ok"
    /\ Has(file_details[2], "error")
    /\ \A p \in {1, 3} : file_details[p].image_object # None

\* C5: once create_pdf has finished, returning or raising, no temporary image
\* file temp_<name> of the batch is on disk.
C5_NoTempFileLeft ==
    pc \in {"done", "failed"} =>
        \A p \in 1..Len(file_details) : ("temp_" \o Text(file_details[p].name)) \notin disk

\* The type the extension of a name stands for.
TypeOfName(name) ==
    IF IsImageName(name) THEN Str("Image")
    ELSE IF IsPdfName(name) THEN Str("PDF")
    ELSE None

\* C6: file_type_detection gives every record the type of its filename
\* extension alone: Image, PDF, or none.
C6_TypeFromExtensionAlone ==
    Detected =>
        \A p \in 1..Len(file_details) :
            file_details[p].type = TypeOfName(file_details[p].name)

\* C7: the appendix line of every record is "<index>: <name> - <type>", with
\* the type of an Unknown record printed as "Unknown".
C7_AppendixLineText ==
    pc = "done" =>
        \A p \in 1..Len(file_details) :
            LET d == file_details[p]
            IN  pdf.appendix[p] =
                    ToString(d.index) \o ": " \o Text(d.name) \o " - "
                        \o (IF d.type = None THEN "Unknown" ELSE d.type[2])

\* C8: a record with error set has no other derived field populated.
C8_ErrorRecordHasNothingElse ==
    Validated =>
        \A p \in 1..Len(file_details) :
            LET d == file_details[p]
            IN  Has(d, "error") =>
                    /\ d.type = None
                    /\ d.dimensions = None
                    /\ d.color_mode = None
                    /\ d.resolution = None
                    /\ d.image_object = None
                    /\ d.print_quality = None
                    /\ ~Has(d, "warning")
                    /\ ~Has(d, "success")

ResolutionUnknown(d) == d.type = Str("Image") /\ d.resolution = Str("Not available")

\* C9 as stated: an image record whose resolution is unknown carries no
\* DPI-based finding, whatever its color mode.
C9_NoDpiFindingWhenResolutionUnknown ==
    Validated =>
        \A p \in 1..Len(file_details) :
            ResolutionUnknown(file_details[p]) => file_details[p].print_quality = None

\* C9 amended: an image record whose resolution is unknown carries no
\* DPI-based finding unless its color mode is CMYK; a CMYK record carries the
\* print quality of its pixel dimensions on an assumed 11 x 17 inch sheet:
\* good when width / 11 >= 300 and height / 17 >= 300, low otherwise.
C9_PrintQualityOnlyForCmyk ==
    Validated =>
        \A p \in 1..Len(file_details) :
            LET d == file_details[p]
            IN  ResolutionUnknown(d) =>
                    IF d.color_mode = Str("CMYK")
                    THEN IF d.dimensions[2] >= 3300 /\ d.dimensions[3] >= 5100
                         THEN d.print_quality = Str("Good for print (meets 300 DPI standard).")
                         ELSE /\ d.print_quality # None
                              /\ d.print_quality #
                                    Str("Good for print (meets 300 DPI standard).")
                    ELSE d.print_quality = None

C9_Witness ==
    /\ pc = "validated"
    /\ \E p \in 1..Len(file_details) :
         /\ ResolutionUnknown(file_details[p])
         /\ file_details[p].color_mode = Str("CMYK")
         /\ file_details[p].dimensions = Tuple2(3300, 5100)
         /\ file_details[p].print_quality = Str("Good for print (meets 300 DPI standard).")
    /\ \E p \in 1..Len(file_details) :
         /\ ResolutionUnknown(file_details[p])
         /\ file_details[p].color_mode = Str("RGBA")
         /\ file_details[p].print_quality = None

\* C10: validate_files gives an RGB image a conversion warning and no success,
\* an RGBA image an alpha warning, no success and exactly one alert, a CMYK
\* image a success and no warning; an image of another mode and a record that
\* is not an image get neither, and only RGBA images raise the alert.
C10_ColorModeRule ==
    Validated =>
        \A p \in 1..Len(file_details) :
            LET d == file_details[p]
                image == d.type = Str("Image")
            IN  CASE image /\ d.color_mode = Str("RGB") ->
                        /\ Has(d, "warning")
                        /\ d.warning = Str("Image is in RGB color mode. Consider converting to CMYK for print.")
                        /\ ~Has(d, "success")
                        /\ AlertCount(p) = 0
                  [] image /\ d.color_mode = Str("RGBA") ->
                        /\ Has(d, "warning")
                        /\ d.warning = Str("Image is in RGBA color mode.")
                        /\ ~Has(d, "success")
                        /\ AlertCount(p) = 1
                  [] image /\ d.color_mode = Str("CMYK") ->
                        /\ Has(d, "success")
                        /\ d.success = Str("Image is in CMYK color mode, suitable for print.")
                        /\ ~Has(d, "warning")
                        /\ AlertCount(p) = 0
                  [] OTHER ->
                        /\ ~Has(d, "warning")
                        /\ ~Has(d, "success")
                        /\ AlertCount(p) = 0

C10_Witness ==
    /\ pc = "validated"
    /\ Len(file_details) = 3
    /\ file_details[1].type = Str("Image") /\ file_details[1].color_mode = Str("L")
    /\ file_details[2].type = Str("Image") /\ file_details[2].color_mode = Str("RGBA")
    /\ file_details[3].type = Str("Image") /\ file_details[3].color_mode = Str("CMYK")
    /\ sounds = <<2>>

====
